---- MODULE Spec2Model ----
(***************************************************************************)
(* Model of src/graph.js: class Node (value, adjacent) and class Graph     *)
(* (nodes; addVertex, addVertices, addEdge, removeEdge, removeVertex,      *)
(* depthFirstSearch, breadthFirstSearch).                                  *)
(*                                                                         *)
(* A JavaScript Set keeps its entries in insertion order without           *)
(* duplicates, and forEach / for-of walk the live entry list.  The         *)
(* adjacency sets are iterated by the code, so they are modelled as        *)
(* duplicate-free sequences in insertion order.  Graph.nodes is only ever  *)
(* used through has/add/delete; it is modelled as a plain set.             *)
(***************************************************************************)
EXTENDS Integers, Sequences, FiniteSets, Bags, TLC

\* ---------------------------------------------------------------- bounds
NumNodes == 4      \* Node objects the caller has constructed
MaxOps == 5        \* mutating calls made on the Graph in one run
MaxListLen == 2    \* length of the array handed to addVertices

Node == 1..NumNodes
null == 0

\* Values the caller gave the Node objects: all different, or shared in pairs.
ValueAssignments ==
  { [v \in Node |-> v], [v \in Node |-> (v + 1) \div 2] }

VertexArrays == UNION { [1..n -> Node] : n \in 0..MaxListLen }

VARIABLES
  value,      \* Node.value of every Node object
  adjacent,   \* Node.adjacent of every Node object (insertion order)
  nodes,      \* Graph.nodes
  ops,        \* number of mutating calls made so far
  last,       \* the call made last: <<name, arguments...>>
  before,     \* nodes and every Node's adjacent when that call was made
  pc,         \* "idle" | "dfs" | "bfs" | "returned" | "threw"
  visited,    \* local `visited` of the running traversal
  result,     \* local `result` of the running traversal
  queue,      \* local `queue` of breadthFirstSearch
  stack       \* call stack of the dfs closure: frames [vertex, i]

vars == <<value, adjacent, nodes, ops, last, before, pc, visited, result, queue, stack>>
graph == <<value, adjacent, nodes>>
locals == <<visited, result, queue, stack>>

\* ------------------------------------------------------ JavaScript Set
SetHas(s, x) == \E i \in 1..Len(s) : s[i] = x

\* Variant: adding an entry again moves it to the end.
SetAddMoveToEnd(s, x) == Append(SelectSeq(s, LAMBDA e : e # x), x)

SetAdd(s, x) == IF SetHas(s, x) THEN s ELSE Append(s, x)

\* Variant: the entries handed out from the newest to the oldest.
forEachEntryReversed(s, i) == s[Len(s) + 1 - i]

\* Set.prototype.forEach hands out the entries in insertion order: the i-th.
forEachEntry(s, i) == s[i]

\* Variant: pop, the last element instead of the first.
shiftLast(q) == [vertex |-> q[Len(q)], rest |-> SubSeq(q, 1, Len(q) - 1)]

\* Array.prototype.shift: the first element, and the array that is left.
shift(q) == [vertex |-> Head(q), rest |-> Tail(q)]

\* Variant: drops the oldest entry whichever entry is asked for.
SetDeleteFirst(s, x) == IF SetHas(s, x) THEN Tail(s) ELSE s

SetDelete(s, x) == SelectSeq(s, LAMBDA e : e # x)

\* Variant: a cursor that is an index into the entries, as over an array that
\* is spliced while it is walked.
IteratorNextByIndex(old, new, pos) == pos + 1

\* A live Set iterator that has handed out the first pos+1 entries of `old`
\* stands, once the set has become `new` by deletions, behind those of them
\* that are still entries: deleted entries are not counted again.
IteratorNext(old, new, pos) ==
  Cardinality({ i \in 1..(pos + 1) : SetHas(new, old[i]) })

\* ------------------------------------------------------------ operations
addVertex(ns, vertex) == ns \cup {vertex}

\* Variant: the loop ends at the first element that is a member already.
RECURSIVE addVerticesLoopStopAtMember(_, _, _)
addVerticesLoopStopAtMember(ns, vertexArray, i) ==
  IF i > Len(vertexArray) \/ vertexArray[i] \in ns THEN ns
  ELSE addVerticesLoopStopAtMember(ns \cup {vertexArray[i]}, vertexArray, i + 1)

RECURSIVE addVerticesLoop(_, _, _)
addVerticesLoop(ns, vertexArray, i) ==
  IF i > Len(vertexArray) THEN ns
  ELSE addVerticesLoop(ns \cup {vertexArray[i]}, vertexArray, i + 1)

addVertices(ns, vertexArray) == addVerticesLoop(ns, vertexArray, 1)

\* Variant: an edge from a vertex to itself is refused.
addEdgeNoSelf(ns, adj, v1, v2) ==
  IF v1 \notin ns \/ v2 \notin ns \/ v1 = v2 THEN adj
  ELSE LET a1 == [adj EXCEPT ![v1] = SetAdd(@, v2)]
       IN  [a1 EXCEPT ![v2] = SetAdd(@, v1)]

\* Variant: the guard lets the call through when one endpoint is a member.
addEdgeEitherMember(ns, adj, v1, v2) ==
  IF v1 \notin ns /\ v2 \notin ns THEN adj
  ELSE LET a1 == [adj EXCEPT ![v1] = SetAdd(@, v2)]
       IN  [a1 EXCEPT ![v2] = SetAdd(@, v1)]

addEdge(ns, adj, v1, v2) ==
  IF v1 \notin ns \/ v2 \notin ns THEN adj
  ELSE LET a1 == [adj EXCEPT ![v1] = SetAdd(@, v2)]
       IN  [a1 EXCEPT ![v2] = SetAdd(@, v1)]

\* Variant: both adjacency sets are emptied.
removeEdgeClear(ns, adj, v1, v2) ==
  IF v1 \notin ns \/ v2 \notin ns THEN adj
  ELSE [adj EXCEPT ![v1] = <<>>, ![v2] = <<>>]

\* Variant: only v1.adjacent is updated.
removeEdgeOneSided(ns, adj, v1, v2) ==
  IF v1 \notin ns \/ v2 \notin ns THEN adj
  ELSE [adj EXCEPT ![v1] = SetDelete(@, v2)]

removeEdge(ns, adj, v1, v2) ==
  IF v1 \notin ns \/ v2 \notin ns THEN adj
  ELSE LET a1 == [adj EXCEPT ![v1] = SetDelete(@, v2)]
       IN  [a1 EXCEPT ![v2] = SetDelete(@, v1)]

\* for (let adjacentVertex of vertex.adjacent) this.removeEdge(...): the loop
\* walks the live set while removeEdge deletes from it.
RECURSIVE removeVertexLoop(_, _, _, _)
removeVertexLoop(ns, adj, vertex, pos) ==
  IF pos >= Len(adj[vertex]) THEN adj
  ELSE LET adjacentVertex == adj[vertex][pos + 1]
           adj2 == removeEdge(ns, adj, vertex, adjacentVertex)
       IN  removeVertexLoop(ns, adj2, vertex,
                            IteratorNext(adj[vertex], adj2[vertex], pos))

\* Variant: the vertex is dropped from nodes without removing its edges.
removeVertexAdjacentKeepEdges(ns, adj, vertex) == adj

removeVertexAdjacent(ns, adj, vertex) ==
  IF vertex \notin ns THEN adj ELSE removeVertexLoop(ns, adj, vertex, 0)

removeVertexNodes(ns, vertex) ==
  IF vertex \notin ns THEN ns ELSE ns \ {vertex}

\* --------------------------------------------------------------- actions
Idle == pc \notin {"dfs", "bfs"}

Snapshot == [nodes |-> nodes, adjacent |-> adjacent]

Mutate(call) ==
  /\ Idle
  /\ ops < MaxOps
  /\ ops' = ops + 1
  /\ last' = call
  /\ before' = Snapshot
  /\ pc' = "idle"
  /\ visited' = {}
  /\ result' = <<>>
  /\ queue' = <<>>
  /\ stack' = <<>>
  /\ UNCHANGED value

AddVertex ==
  \E vertex \in Node :
    /\ Mutate(<<"addVertex", vertex>>)
    /\ nodes' = addVertex(nodes, vertex)
    /\ UNCHANGED adjacent

AddVertices ==
  \E vertexArray \in VertexArrays :
    /\ Mutate(<<"addVertices", vertexArray>>)
    /\ nodes' = addVertices(nodes, vertexArray)
    /\ UNCHANGED adjacent

AddEdge ==
  \E v1, v2 \in Node :
    /\ Mutate(<<"addEdge", v1, v2>>)
    /\ adjacent' = addEdge(nodes, adjacent, v1, v2)
    /\ UNCHANGED nodes

RemoveEdge ==
  \E v1, v2 \in Node :
    /\ Mutate(<<"removeEdge", v1, v2>>)
    /\ adjacent' = removeEdge(nodes, adjacent, v1, v2)
    /\ UNCHANGED nodes

RemoveVertex ==
  \E vertex \in Node :
    /\ Mutate(<<"removeVertex", vertex>>)
    /\ adjacent' = removeVertexAdjacent(nodes, adjacent, vertex)
    /\ nodes' = removeVertexNodes(nodes, vertex)

\* ------------------------------------------------------------ traversals
\* Variant: the visited set is looked up by value, not by object.
UnvisitedByValue(vis, neighbor) ==
  \A w \in vis \cap Node : value[w] # value[neighbor]

\* Variant: no check of the visited set.
UnvisitedAlways(vis, neighbor) == TRUE

\* `!visited.has(neighbor)` of both traversals.

Unvisited(vis, neighbor) == neighbor \notin vis

\* Variant: dfs returns at once for a start that is not in nodes.
DepthFirstSearchMembersOnly ==
  \E start \in Node \cup {null} :
    /\ Idle
    /\ last' = <<"depthFirstSearch", start>>
    /\ before' = Snapshot
    /\ IF start \notin nodes
       THEN /\ pc' = "returned"
            /\ visited' = {}
            /\ result' = <<>>
            /\ stack' = <<>>
       ELSE /\ pc' = "dfs"
            /\ visited' = {start}
            /\ result' = <<value[start]>>
            /\ stack' = <<[vertex |-> start, i |-> 1]>>
    /\ queue' = <<>>
    /\ UNCHANGED <<graph, ops>>

\* Variant: the visited set outlives the call (kept on the Graph).
DepthFirstSearchKeepsVisited ==
  \E start \in Node \cup {null} :
    /\ Idle
    /\ last' = <<"depthFirstSearch", start>>
    /\ before' = Snapshot
    /\ IF start = null
       THEN /\ pc' = "returned"
            /\ visited' = visited
            /\ result' = <<>>
            /\ stack' = <<>>
       ELSE /\ pc' = "dfs"
            /\ visited' = visited \cup {start}
            /\ result' = <<value[start]>>
            /\ stack' = <<[vertex |-> start, i |-> 1]>>
    /\ queue' = <<>>
    /\ UNCHANGED <<graph, ops>>

\* Variant: dfs without its guard; reading the value of a null vertex throws.
DepthFirstSearchNoGuard ==
  \E start \in Node \cup {null} :
    /\ Idle
    /\ last' = <<"depthFirstSearch", start>>
    /\ before' = Snapshot
    /\ IF start = null
       THEN /\ pc' = "threw"
            /\ visited' = {start}
            /\ result' = <<>>
            /\ stack' = <<>>
       ELSE /\ pc' = "dfs"
            /\ visited' = {start}
            /\ result' = <<value[start]>>
            /\ stack' = <<[vertex |-> start, i |-> 1]>>
    /\ queue' = <<>>
    /\ UNCHANGED <<graph, ops>>

\* depthFirstSearch(start): dfs(start) with its `if (!vertex) return` guard.
DepthFirstSearch ==
  \E start \in Node \cup {null} :
    /\ Idle
    /\ last' = <<"depthFirstSearch", start>>
    /\ before' = Snapshot
    /\ IF start = null
       THEN /\ pc' = "returned"
            /\ visited' = {}
            /\ result' = <<>>
            /\ stack' = <<>>
       ELSE /\ pc' = "dfs"
            /\ visited' = {start}
            /\ result' = <<value[start]>>
            /\ stack' = <<[vertex |-> start, i |-> 1]>>
    /\ queue' = <<>>
    /\ UNCHANGED <<graph, ops>>

\* One step of vertex.adjacent.forEach in the innermost running dfs(vertex):
\* the forEach is over, and dfs returns to its caller; or the next neighbour is
\* looked at, and dfs(neighbor) is entered when it is unvisited.
DfsStep ==
  /\ pc = "dfs"
  /\ LET top == Len(stack)
         f == stack[top]
     IN  IF f.i > Len(adjacent[f.vertex])
         THEN /\ stack' = SubSeq(stack, 1, top - 1)
              /\ pc' = IF top = 1 THEN "returned" ELSE "dfs"
              /\ UNCHANGED <<visited, result>>
         ELSE LET neighbor == forEachEntry(adjacent[f.vertex], f.i)
                  advanced == [stack EXCEPT ![top].i = f.i + 1]
              IN  /\ pc' = "dfs"
                  /\ IF Unvisited(visited, neighbor)
                     THEN /\ visited' = visited \cup {neighbor}
                          /\ result' = Append(result, value[neighbor])
                          /\ stack' = Append(advanced, [vertex |-> neighbor, i |-> 1])
                     ELSE /\ stack' = advanced
                          /\ UNCHANGED <<visited, result>>
  /\ UNCHANGED <<graph, ops, last, before, queue>>

\* Variant: the start vertex is enqueued without being marked visited.
BreadthFirstSearchStartUnmarked ==
  \E start \in Node \cup {null} :
    /\ Idle
    /\ last' = <<"breadthFirstSearch", start>>
    /\ before' = Snapshot
    /\ pc' = "bfs"
    /\ queue' = <<start>>
    /\ result' = <<>>
    /\ visited' = {}
    /\ stack' = <<>>
    /\ UNCHANGED <<graph, ops>>

\* Variant: breadthFirstSearch with the guard of dfs, returning [] for null.
BreadthFirstSearchGuarded ==
  \E start \in Node \cup {null} :
    /\ Idle
    /\ last' = <<"breadthFirstSearch", start>>
    /\ before' = Snapshot
    /\ pc' = IF start = null THEN "returned" ELSE "bfs"
    /\ queue' = IF start = null THEN <<>> ELSE <<start>>
    /\ result' = <<>>
    /\ visited' = IF start = null THEN {} ELSE {start}
    /\ stack' = <<>>
    /\ UNCHANGED <<graph, ops>>

\* breadthFirstSearch(start) up to its loop: no guard on start.
BreadthFirstSearch ==
  \E start \in Node \cup {null} :
    /\ Idle
    /\ last' = <<"breadthFirstSearch", start>>
    /\ before' = Snapshot
    /\ pc' = "bfs"
    /\ queue' = <<start>>
    /\ result' = <<>>
    /\ visited' = {start}
    /\ stack' = <<>>
    /\ UNCHANGED <<graph, ops>>

\* Variant: neighbours are enqueued without being marked visited.
RECURSIVE bfsForEachNoMark(_, _, _, _)
bfsForEachNoMark(vis, q, adj, i) ==
  IF i > Len(adj) THEN [visited |-> vis, queue |-> q]
  ELSE IF Unvisited(vis, forEachEntry(adj, i))
       THEN bfsForEachNoMark(vis, Append(q, forEachEntry(adj, i)), adj, i + 1)
       ELSE bfsForEachNoMark(vis, q, adj, i + 1)

\* Variant: every neighbour is enqueued, visited or not.
RECURSIVE bfsForEachEnqueueAll(_, _, _, _)
bfsForEachEnqueueAll(vis, q, adj, i) ==
  IF i > Len(adj) THEN [visited |-> vis, queue |-> q]
  ELSE bfsForEachEnqueueAll(vis \cup {forEachEntry(adj, i)},
                            Append(q, forEachEntry(adj, i)), adj, i + 1)

\* vertex.adjacent.forEach(neighbor => ...) of the loop body, from entry i on:
\* the visited set and the queue it leaves.
RECURSIVE bfsForEach(_, _, _, _)
bfsForEach(vis, q, adj, i) ==
  IF i > Len(adj) THEN [visited |-> vis, queue |-> q]
  ELSE LET neighbor == forEachEntry(adj, i)
       IN  IF Unvisited(vis, neighbor)
           THEN bfsForEach(vis \cup {neighbor}, Append(q, neighbor), adj, i + 1)
           ELSE bfsForEach(vis, q, adj, i + 1)

\* One iteration of `while (queue.length)`.  Reading vertex.value of a null
\* vertex throws a TypeError out of breadthFirstSearch.
BfsStep ==
  /\ pc = "bfs"
  /\ queue # <<>>
  /\ LET vertex == shift(queue).vertex
         rest == shift(queue).rest
     IN  IF vertex = null
         THEN /\ pc' = "threw"
              /\ queue' = rest
              /\ UNCHANGED <<visited, result>>
         ELSE LET after == bfsForEach(visited, rest, adjacent[vertex], 1)
              IN  /\ pc' = "bfs"
                  /\ result' = Append(result, value[vertex])
                  /\ visited' = after.visited
                  /\ queue' = after.queue
  /\ UNCHANGED <<graph, ops, last, before, stack>>

\* The loop condition fails: return result.
BfsReturn ==
  /\ pc = "bfs"
  /\ queue = <<>>
  /\ pc' = "returned"
  /\ UNCHANGED <<graph, ops, last, before, locals>>

Init ==
  /\ value \in ValueAssignments
  /\ adjacent = [v \in Node |-> <<>>]
  /\ nodes = {}
  /\ ops = 0
  /\ last = <<"new Graph">>
  /\ before = [nodes |-> {}, adjacent |-> [v \in Node |-> <<>>]]
  /\ pc = "idle"
  /\ visited = {}
  /\ result = <<>>
  /\ queue = <<>>
  /\ stack = <<>>

Next ==
  \/ AddVertex
  \/ AddVertices
  \/ AddEdge
  \/ RemoveEdge
  \/ RemoveVertex
  \/ DepthFirstSearch
  \/ DfsStep
  \/ BreadthFirstSearch
  \/ BfsStep
  \/ BfsReturn

Spec == Init /\ [][Next]_vars

\* A traversal that has been called runs on until it returns or throws.
FairSpec ==
  Spec /\ WF_vars(DfsStep) /\ WF_vars(BfsStep) /\ WF_vars(BfsReturn)

\* ---------------------------------------------------------------- claims
Called(name) == last[1] = name
Range(s) == { s[i] : i \in 1..Len(s) }
WasMember(v) == v \in before.nodes

\* C1: symmetry.  In every state the mutating operations reach, any two
\* members u, v of nodes satisfy: u is in v.adjacent iff v is in u.adjacent.
C1_Symmetry ==
  \A u, v \in nodes : SetHas(adjacent[v], u) <=> SetHas(adjacent[u], v)

\* An edge between two members has just been removed while another edge of the
\* graph stays.
C1_Witness ==
  /\ Called("removeEdge")
  /\ WasMember(last[2]) /\ WasMember(last[3]) /\ last[2] # last[3]
  /\ SetHas(before.adjacent[last[2]], last[3])
  /\ \E u, v \in nodes : u # v /\ SetHas(adjacent[u], v)

\* C2: removeVertex(v) on a member v removes v from nodes, leaves v in no
\* vertex's adjacency set (no neighbour of v is skipped by the loop over the
\* live v.adjacent) and leaves v.adjacent empty.
C2_RemoveVertexClearsAll ==
  (Called("removeVertex") /\ WasMember(last[2])) =>
    /\ last[2] \notin nodes
    /\ \A w \in Node : ~SetHas(adjacent[w], last[2])
    /\ adjacent[last[2]] = <<>>

\* A member with at least two neighbours has just been removed.
C2_Witness ==
  /\ Called("removeVertex") /\ WasMember(last[2])
  /\ Len(before.adjacent[last[2]]) >= 2
  /\ last[2] \notin nodes

\* C3: addEdge / removeEdge with an endpoint that is no member, and
\* removeVertex of a non-member, return normally and leave nodes and every
\* adjacency set as they were.
NoOpCall ==
  \/ /\ Called("addEdge") \/ Called("removeEdge")
     /\ ~WasMember(last[2]) \/ ~WasMember(last[3])
  \/ /\ Called("removeVertex")
     /\ ~WasMember(last[2])

C3_NonMemberNoOp ==
  NoOpCall => /\ pc = "idle"
              /\ nodes = before.nodes
              /\ adjacent = before.adjacent

\* addEdge between a member that has an edge already and a non-member.
C3_Witness ==
  /\ Called("addEdge")
  /\ WasMember(last[2]) /\ ~WasMember(last[3])
  /\ before.adjacent[last[2]] # <<>>
  /\ pc = "idle"

\* C4: for members u, v (possibly the same vertex), right after addEdge(u, v)
\* each is in the other's adjacency set; right after removeEdge(u, v) neither
\* is.
C4_EdgePostcondition ==
  /\ (Called("addEdge") /\ WasMember(last[2]) /\ WasMember(last[3])) =>
       (SetHas(adjacent[last[2]], last[3]) /\ SetHas(adjacent[last[3]], last[2]))
  /\ (Called("removeEdge") /\ WasMember(last[2]) /\ WasMember(last[3])) =>
       (~SetHas(adjacent[last[2]], last[3]) /\ ~SetHas(adjacent[last[3]], last[2]))

\* An existing edge that is not the first entry of either endpoint's adjacency
\* set has just been removed.
C4_Witness ==
  /\ Called("removeEdge")
  /\ WasMember(last[2]) /\ WasMember(last[3]) /\ last[2] # last[3]
  /\ Len(before.adjacent[last[2]]) >= 2
  /\ before.adjacent[last[2]][1] # last[3]
  /\ SetHas(before.adjacent[last[2]], last[3])
  /\ ~SetHas(adjacent[last[2]], last[3])
\* Vertices reachable from the vertices of S by following adjacent links.
RECURSIVE ReachFrom(_)
ReachFrom(S) ==
  LET T == S \cup UNION { Range(adjacent[v]) : v \in S }
  IN  IF T = S THEN S ELSE ReachFrom(T)

Reachable(start) == ReachFrom({start})

Values == { value[v] : v \in Node }
Occurrences(seq, x) == Cardinality({ i \in 1..Len(seq) : seq[i] = x })
ValuesOf(order) == [k \in 1..Len(order) |-> value[order[k]]]

\* `seq` holds one entry for every vertex of S (its value) and nothing else.
OneEntryPerVertex(seq, S) ==
  /\ Len(seq) = Cardinality(S)
  /\ \A x \in Values :
       Occurrences(seq, x) = Cardinality({ v \in S : value[v] = x })

DfsFromVertex == Called("depthFirstSearch") /\ last[2] # null
BfsFromVertex == Called("breadthFirstSearch") /\ last[2] # null

\* C5: depthFirstSearch(start) from a vertex records every vertex at most once
\* and only vertices reachable from start, and returns exactly one entry for
\* each vertex reachable from start (start included).
C5_DfsReachable ==
  DfsFromVertex =>
    /\ Len(result) = Cardinality(visited)
    /\ visited \subseteq Reachable(last[2])
    /\ pc = "returned" =>
         /\ visited = Reachable(last[2])
         /\ OneEntryPerVertex(result, Reachable(last[2]))

\* A returned depthFirstSearch that went along an edge and met a self-loop,
\* with a member of the graph left out because it is not connected to start.
C5_Witness ==
  /\ DfsFromVertex /\ pc = "returned"
  /\ Len(result) >= 2
  /\ \E v \in visited : SetHas(adjacent[v], v)
  /\ \E w \in nodes : w \notin visited

\* C6: breadthFirstSearch(start) from a vertex marks only vertices reachable
\* from start and returns exactly one entry for each vertex reachable from
\* start (start included).
C6_BfsReachable ==
  BfsFromVertex =>
    /\ visited \subseteq Reachable(last[2])
    /\ Len(result) <= Cardinality(visited)
    /\ pc = "returned" =>
         /\ visited = Reachable(last[2])
         /\ OneEntryPerVertex(result, Reachable(last[2]))

\* A returned breadthFirstSearch over a triangle.
C6_Witness ==
  /\ BfsFromVertex /\ pc = "returned"
  /\ Len(result) = 3
  /\ \A u, v \in visited : u # v => SetHas(adjacent[u], v)

\* Depth-first pre-order as the claim words it: v is recorded, then each
\* neighbour of v in insertion order, if still unrecorded at that moment, is
\* recorded with its whole subtree before the next neighbour is considered.
RECURSIVE PreOrderFrom(_, _), PreOrderEach(_, _, _)
PreOrderFrom(v, seen) == PreOrderEach(v, 1, Append(seen, v))
PreOrderEach(v, i, seen) ==
  IF i > Len(adjacent[v]) THEN seen
  ELSE LET n == adjacent[v][i]
       IN  IF n \in Range(seen)
           THEN PreOrderEach(v, i + 1, seen)
           ELSE PreOrderEach(v, i + 1, PreOrderFrom(n, seen))

\* A(1), B(2), C(3) with the edges A-B, then B-C.
ChainABC ==
  /\ value[1] = 1 /\ value[2] = 2 /\ value[3] = 3
  /\ adjacent[1] = <<2>> /\ adjacent[2] = <<1, 3>> /\ adjacent[3] = <<2>>

\* C7: depthFirstSearch(start) returns the values in depth-first pre-order
\* over the insertion order of the adjacency sets; on the chain A-B-C it
\* returns [1, 2, 3] from A.
C7_DfsPreOrder ==
  (DfsFromVertex /\ pc = "returned") =>
    /\ result = ValuesOf(PreOrderFrom(last[2], <<>>))
    /\ (ChainABC /\ last[2] = 1) => result = <<1, 2, 3>>

\* Breadth-first order: the vertices in the order they are reached when the
\* k-th recorded vertex hands on its unrecorded neighbours in insertion order.
RECURSIVE AppendNew(_, _, _), BfsOrderFrom(_, _)
AppendNew(order, adj, i) ==
  IF i > Len(adj) THEN order
  ELSE AppendNew(IF adj[i] \in Range(order) THEN order ELSE Append(order, adj[i]),
                 adj, i + 1)
BfsOrderFrom(order, k) ==
  IF k > Len(order) THEN order
  ELSE BfsOrderFrom(AppendNew(order, adjacent[order[k]], 1), k + 1)

\* depthFirstSearch has returned four values in an order that is not the
\* breadth-first one: a branch was explored to its end first.
C7_Witness ==
  /\ DfsFromVertex /\ pc = "returned"
  /\ Len(result) = 4
  /\ value[4] = 4
  /\ result # ValuesOf(BfsOrderFrom(<<last[2]>>, 1))

\* Edge distance from start: the vertices at distance at most d.
RECURSIVE Within(_, _)
Within(start, d) ==
  IF d = 0 THEN {start}
  ELSE LET W == Within(start, d - 1)
       IN  W \cup UNION { Range(adjacent[v]) : v \in W }
Dist(start, v) ==
  CHOOSE d \in 0..NumNodes : v \in Within(start, d) /\ (d > 0 => v \notin Within(start, d - 1))

\* A(1) with edges to B(2), C(3), D(4) added in that order.
StarABCD ==
  /\ value[1] = 1 /\ value[2] = 2 /\ value[3] = 3 /\ value[4] = 4
  /\ adjacent[1] = <<2, 3, 4>>
  /\ adjacent[2] = <<1>> /\ adjacent[3] = <<1>> /\ adjacent[4] = <<1>>

\* C8: breadthFirstSearch(start) returns the vertices in non-decreasing edge
\* distance from start, neighbours of a vertex in the insertion order of its
\* adjacency set; [1, 2, 3, 4] on the star from A, [1, 2, 3] on the chain.
C8_BfsOrder ==
  (BfsFromVertex /\ pc = "returned") =>
    LET order == BfsOrderFrom(<<last[2]>>, 1)
    IN  /\ result = ValuesOf(order)
        /\ \A i, j \in 1..Len(order) :
             i < j => Dist(last[2], order[i]) <= Dist(last[2], order[j])
        /\ (StarABCD /\ last[2] = 1) => result = <<1, 2, 3, 4>>
        /\ (ChainABC /\ last[2] = 1) => result = <<1, 2, 3>>

\* breadthFirstSearch has returned from the centre of the star.
C8_Witness ==
  /\ BfsFromVertex /\ pc = "returned"
  /\ StarABCD /\ last[2] = 1
  /\ result = <<1, 2, 3, 4>>
\* What is left to do for the running depthFirstSearch: the entries the open
\* forEach loops have not handed out yet, the returns of the open dfs calls,
\* and for each vertex not visited yet its dfs call with all its entries.
RECURSIVE EntriesLeft(_)
EntriesLeft(stk) ==
  IF stk = <<>> THEN 0
  ELSE Len(adjacent[Head(stk).vertex]) + 1 - Head(stk).i + EntriesLeft(Tail(stk))

RECURSIVE CallsLeft(_)
CallsLeft(S) ==
  IF S = {} THEN 0
  ELSE LET v == CHOOSE x \in S : TRUE
       IN  Len(adjacent[v]) + 2 + CallsLeft(S \ {v})

DfsMeasure == EntriesLeft(stack) + Len(stack) + CallsLeft(Node \ visited)

\* What is left to do for the running breadthFirstSearch: the queued vertices,
\* the vertices that can still be enqueued, and the return.
BfsMeasure ==
  Len(queue) + 2 * Cardinality(Node \ visited) + (IF pc = "bfs" THEN 1 ELSE 0)

\* C9: depthFirstSearch and breadthFirstSearch from a vertex terminate and
\* return on every reachable graph (cycles and self-loops included): every
\* step of a traversal uses up some of the work that is left, which no step
\* adds to because no vertex is visited or enqueued twice, and a traversal
\* that has been called does return.
C9_Terminates ==
  /\ [][ /\ pc = "dfs" => DfsMeasure' < DfsMeasure
         /\ pc = "bfs" => BfsMeasure' < BfsMeasure ]_vars
  /\ []((pc \in {"dfs", "bfs"} /\ last[2] # null) => <>(pc = "returned"))

\* breadthFirstSearch has returned from a vertex with a self-loop after going
\* round three vertices, two of them joined to each other in both directions.
C9_Witness ==
  /\ BfsFromVertex /\ pc = "returned"
  /\ SetHas(adjacent[last[2]], last[2])
  /\ Cardinality(visited) = 3
  /\ Len(result) = 3

\* addVertex applied to each element of the array in turn.
RECURSIVE EachAddVertex(_, _)
EachAddVertex(ns, vertexArray) ==
  IF vertexArray = <<>> THEN ns
  ELSE EachAddVertex(addVertex(ns, Head(vertexArray)), Tail(vertexArray))

\* C10: addVertex(v) makes v a member and changes nothing when v is one
\* already; addVertices(list) goes through the whole list and leaves nodes as
\* addVertex on each element in turn does, whether or not elements are members
\* already or repeated.  Neither touches an adjacency set.
C10_AddVertexIdempotent ==
  /\ Called("addVertex") =>
       /\ last[2] \in nodes
       /\ nodes \ {last[2]} = before.nodes \ {last[2]}
       /\ WasMember(last[2]) => nodes = before.nodes
       /\ adjacent = before.adjacent
  /\ Called("addVertices") =>
       /\ Range(last[2]) \subseteq nodes
       /\ nodes = EachAddVertex(before.nodes, last[2])
       /\ nodes = before.nodes \cup Range(last[2])
       /\ adjacent = before.adjacent

\* addVertices was given an array whose first element was a member already
\* (with an edge) and whose second element was not.
C10_Witness ==
  /\ Called("addVertices") /\ Len(last[2]) = 2
  /\ WasMember(last[2][1]) /\ ~WasMember(last[2][2])
  /\ adjacent[last[2][1]] # <<>>
  /\ last[2][2] \in nodes
\* C11: depthFirstSearch(null) returns an empty sequence at once: nothing is
\* recorded or visited, no error is raised, and the graph is as it was.
C11_DfsNullEmpty ==
  (Called("depthFirstSearch") /\ last[2] = null) =>
    /\ pc = "returned"
    /\ result = <<>>
    /\ visited = {}
    /\ stack = <<>>
    /\ nodes = before.nodes /\ adjacent = before.adjacent

\* depthFirstSearch(null) has returned on a graph that has members and edges.
C11_Witness ==
  /\ Called("depthFirstSearch") /\ last[2] = null
  /\ pc = "returned" /\ result = <<>>
  /\ \E u, v \in nodes : u # v /\ SetHas(adjacent[u], v)
BfsFromNull == Called("breadthFirstSearch") /\ last[2] = null

\* C12: breadthFirstSearch(null) does not return an empty sequence: it marks
\* and enqueues the null start, and the first iteration of the loop ends the
\* call with an error when it reads the value of the dequeued null; no result
\* is returned.
C12_BfsNullThrows ==
  /\ [](BfsFromNull =>
          /\ pc \in {"bfs", "threw"}
          /\ result = <<>>
          /\ visited = {null}
          /\ pc = "bfs" => queue = <<null>>
          /\ pc = "threw" => queue = <<>>)
  /\ [](BfsFromNull => <>(BfsFromNull /\ pc = "threw"))

\* breadthFirstSearch(null) has thrown on a graph that has members and edges.
C12_Witness ==
  /\ BfsFromNull /\ pc = "threw"
  /\ \E u, v \in nodes : u # v /\ SetHas(adjacent[u], v)

\* C13: addEdge(A, A) on a member A puts A into its own adjacency set; a
\* later removeVertex(A) completes and leaves A out of nodes, out of
\* A.adjacent and out of every other vertex's adjacency set.
C13_SelfEdge ==
  /\ (Called("addEdge") /\ last[2] = last[3] /\ WasMember(last[2])) =>
       SetHas(adjacent[last[2]], last[2])
  /\ (Called("removeVertex") /\ WasMember(last[2])
        /\ SetHas(before.adjacent[last[2]], last[2])) =>
       /\ pc = "idle"
       /\ last[2] \notin nodes
       /\ adjacent[last[2]] = <<>>
       /\ \A w \in Node : ~SetHas(adjacent[w], last[2])

\* A member whose adjacency set held itself first and then another vertex has
\* just been removed.
C13_Witness ==
  /\ Called("removeVertex") /\ WasMember(last[2])
  /\ Len(before.adjacent[last[2]]) >= 2
  /\ before.adjacent[last[2]][1] = last[2]
  /\ last[2] \notin nodes
TraversalCalled == Called("depthFirstSearch") \/ Called("breadthFirstSearch")
EdgeCalled == Called("addEdge") \/ Called("removeEdge")

\* C14: vertices are told apart by identity, not by value.  For two vertices
\* u # v with the same value: adding u does not make v a member; an edge
\* operation on u with another vertex leaves v's adjacency set alone; and a
\* returned traversal that has reached both holds their value twice (one entry
\* per vertex reached, not per value).
C14_IdentityNotValue ==
  /\ \A u, v \in Node :
       (u # v /\ value[u] = value[v]) =>
         /\ (Called("addVertex") /\ last[2] = u /\ ~WasMember(v)) => v \notin nodes
         /\ (EdgeCalled /\ last[2] = u /\ last[3] # v) =>
              adjacent[v] = before.adjacent[v]
         /\ (EdgeCalled /\ last[3] = u /\ last[2] # v) =>
              adjacent[v] = before.adjacent[v]
  /\ (TraversalCalled /\ last[2] # null /\ pc = "returned") =>
       \A x \in Values :
         Occurrences(result, x) =
           Cardinality({ v \in Reachable(last[2]) : value[v] = x })

\* A returned traversal has reached two different vertices of the same value,
\* and the result holds that value twice.
C14_Witness ==
  /\ TraversalCalled /\ pc = "returned"
  /\ \E u, v \in visited :
       /\ u # v /\ u # null /\ v # null
       /\ value[u] = value[v]
       /\ Occurrences(result, value[u]) = 2

\* C15: addEdge(u, v) on members that are joined already, and removeEdge(u, v)
\* on members that are not joined, leave nodes and every adjacency set (entries
\* and their order) as they were; and after any addEdge or removeEdge, the
\* same call made again changes nothing.
C15_EdgeIdempotent ==
  /\ (Called("addEdge") /\ WasMember(last[2]) /\ WasMember(last[3])
        /\ SetHas(before.adjacent[last[2]], last[3])
        /\ SetHas(before.adjacent[last[3]], last[2])) =>
       (nodes = before.nodes /\ adjacent = before.adjacent)
  /\ (Called("removeEdge") /\ WasMember(last[2]) /\ WasMember(last[3])
        /\ ~SetHas(before.adjacent[last[2]], last[3])
        /\ ~SetHas(before.adjacent[last[3]], last[2])) =>
       (nodes = before.nodes /\ adjacent = before.adjacent)
  /\ Called("addEdge") => addEdge(nodes, adjacent, last[2], last[3]) = adjacent
  /\ Called("removeEdge") => removeEdge(nodes, adjacent, last[2], last[3]) = adjacent

\* addEdge was called for an edge that existed, and was not the newest entry
\* of its first endpoint's adjacency set.
C15_Witness ==
  /\ Called("addEdge")
  /\ WasMember(last[2]) /\ WasMember(last[3]) /\ last[2] # last[3]
  /\ Len(before.adjacent[last[2]]) >= 2
  /\ before.adjacent[last[2]][1] = last[3]
  /\ adjacent = before.adjacent
\* C16: closure.  In every state reached from an empty Graph and vertices
\* made with the default empty adjacency set, every vertex in the adjacency
\* set of any vertex, member or removed, is a member of nodes.
C16_Closure ==
  \A v \in Node : \A w \in Range(adjacent[v]) : w \in nodes

\* A member that had a neighbour has been removed, and that neighbour is
\* still joined to another member.
C16_Witness ==
  /\ Called("removeVertex") /\ WasMember(last[2])
  /\ last[2] \notin nodes
  /\ \E u, w \in nodes :
       /\ u # w
       /\ SetHas(before.adjacent[last[2]], u)
       /\ SetHas(adjacent[u], w)

NoDuplicates(seq) == \A i, j \in 1..Len(seq) : i # j => seq[i] # seq[j]

\* C17: at every step of the loop of breadthFirstSearch, and when it has
\* returned: the queue holds no vertex twice; every queued vertex is marked
\* visited; the vertices dequeued so far (one result entry each) and the
\* queued ones are together as many as the visited ones, so no vertex has been
\* enqueued twice; and every visited vertex that is not queued is recorded in
\* the result exactly once.
C17_BfsLoopInvariant ==
  (Called("breadthFirstSearch") /\ pc \in {"bfs", "returned"}) =>
    /\ NoDuplicates(queue)
    /\ Range(queue) \subseteq visited
    /\ Len(result) + Len(queue) = Cardinality(visited)
    /\ \A x \in Values :
         Occurrences(result, x) =
           Cardinality({ v \in visited \ Range(queue) : value[v] = x })

\* The loop is under way: one vertex recorded, two waiting in the queue, and a
\* visited neighbour met again through an edge between the two.
C17_Witness ==
  /\ BfsFromVertex /\ pc = "bfs"
  /\ Len(result) = 1
  /\ Len(queue) = 2
  /\ SetHas(adjacent[queue[1]], queue[2])
DfsFromNonMember == DfsFromVertex /\ last[2] \notin nodes

\* C18 as stated: depthFirstSearch(start) returns an empty sequence when start
\* is a Node that is not a member of nodes.
C18_NonMemberEmpty ==
  (DfsFromNonMember /\ pc = "returned") => result = <<>>

\* C18, amended: depthFirstSearch makes no membership check.  From a Node that
\* is not a member of nodes it records start.value first, and returns exactly
\* [start.value], the adjacency set of a non-member being empty.
C18_NonMemberStartValue ==
  DfsFromNonMember =>
    /\ result # <<>> /\ result[1] = value[last[2]]
    /\ pc = "returned" => result = <<value[last[2]]>>

\* depthFirstSearch has returned from a non-member while the graph has members
\* joined by an edge.
C18_Witness ==
  /\ DfsFromNonMember /\ pc = "returned"
  /\ result = <<value[last[2]]>>
  /\ \E u, v \in nodes : u # v /\ SetHas(adjacent[u], v)

\* C19: a traversal leaves nodes and every adjacency set as they were at the
\* call, and what it returns is fixed by the graph and start alone: nothing of
\* an earlier call is left in visited or result, so the same call on the same
\* graph returns the same sequence.
C19_TraversalReadOnly ==
  /\ TraversalCalled => (nodes = before.nodes /\ adjacent = before.adjacent)
  /\ (TraversalCalled /\ last[2] # null /\ pc \in {"dfs", "bfs"}) =>
       visited \subseteq Reachable(last[2])
  /\ (DfsFromVertex /\ pc = "returned") =>
       /\ visited = Reachable(last[2])
       /\ result = ValuesOf(PreOrderFrom(last[2], <<>>))
  /\ (BfsFromVertex /\ pc = "returned") =>
       /\ visited = Reachable(last[2])
       /\ result = ValuesOf(BfsOrderFrom(<<last[2]>>, 1))

\* A traversal over three vertices has returned from a vertex that is not
\* joined to every member.
C19_Witness ==
  /\ TraversalCalled /\ pc = "returned"
  /\ Len(result) = 3
  /\ adjacent = before.adjacent
  /\ \E w \in nodes : w \notin visited

Without(seq, v) == SelectSeq(seq, LAMBDA e : e # v)

\* C20: each mutating operation changes only what it names.  addVertex and
\* addVertices change no adjacency set; addEdge(u, v) and removeEdge(u, v)
\* leave nodes and every adjacency set but u's and v's alone; removeVertex(v)
\* takes nothing but v out of nodes, and every other vertex's adjacency set
\* loses the entry v and nothing else.
C20_Frame ==
  /\ (Called("addVertex") \/ Called("addVertices")) =>
       /\ adjacent = before.adjacent
       /\ before.nodes \subseteq nodes
  /\ EdgeCalled =>
       /\ nodes = before.nodes
       /\ \A w \in Node \ {last[2], last[3]} : adjacent[w] = before.adjacent[w]
  /\ Called("removeVertex") =>
       /\ nodes = before.nodes \ {last[2]}
       /\ \A w \in Node \ {last[2]} :
            adjacent[w] = Without(before.adjacent[w], last[2])

\* A member has been removed that was the oldest entry of a neighbour's
\* adjacency set; the neighbour keeps its other entry.
C20_Witness ==
  /\ Called("removeVertex") /\ WasMember(last[2])
  /\ \E w \in nodes :
       /\ Len(before.adjacent[w]) = 2
       /\ before.adjacent[w][1] = last[2]
       /\ before.adjacent[w][2] \notin {w, last[2]}
       /\ adjacent[w] = <<before.adjacent[w][2]>>
====
